---- MODULE Spec2Model ----
(***************************************************************************)
(* The player-state synchronisation server of backend/index.js: the       *)
(* players table, the playerUpdateRate table, the socket.io handlers       *)
(* (join, playerMove, disconnect) and the heartbeat sweep.                 *)
(*                                                                         *)
(* Numbers.  A JavaScript number that comes from a payload or is stored in *)
(* a position is modelled in fixed point, in hundredths (PerUnit steps for *)
(* 1.0), so that POSITION_THRESHOLD (0.01) is one step; NaN is a value of  *)
(* its own.  Timestamps (Date.now()) are integers, in milliseconds.        *)
(***************************************************************************)
EXTENDS Integers, Sequences, FiniteSets, TLC

VARIABLES
  open,              \* ids of the sockets that are connected (io.sockets.sockets)
  closed,            \* ids of the sockets whose 'disconnect' has fired
  players,           \* const players = {}           (id -> Player)
  playerUpdateRate,  \* const playerUpdateRate = {}  (id -> {lastUpdate, updateCount})
  now,               \* Date.now()
  nextSweep,         \* when the setInterval callback of startHeartbeat fires next
  crashed,           \* an exception left a handler uncaught: the process is gone
  sent,              \* what the last handler emitted, in order
  last,              \* history: the last event handled and how it ended
  nJoined,           \* history: per id, the joins that created a Player where none was
  nDisconnected,     \* history: per id, the playerDisconnected emissions carrying it
  obsStart,          \* history: start of the observed 1000 ms interval (-1: none yet)
  obsCount,          \* history: moves that passed the rate limiter in that interval
  admittedAt,        \* history: per id, when its last join succeeded or move passed the limiter
  policy,            \* reference: per registered id, the RateState of the admit(id, now) policy
  announced,         \* history: per player, the position of the last newPlayer or
                     \* playerMoved about it that went out to some connection,
                     \* of those emitted since the observer started
  app                \* per connection whose peer is the browser client (App.js): its
                     \* React state and refs

vars == <<open, closed, players, playerUpdateRate, now, nextSweep, crashed, sent,
          last, nJoined, nDisconnected, obsStart, obsCount, admittedAt, policy,
          announced, app>>

---------------------------------------------------------------------------
(* Bounds of the model *)
NSockets == 2
NFanoutSockets == 3
MaxTime == 15000
MaxRateTime == 1050
MaxMoveTime == 150
MaxLockTime == 2100
MaxLiveTime == 17500

(* CONFIG and the literals of backend/index.js *)
MAX_UPDATE_RATE == 20
MIN_UPDATE_INTERVAL == 50
MAX_POSITION_DISTANCE == 150
MAX_VELOCITY == 15
HEARTBEAT_TIMEOUT == 10000
POSITION_THRESHOLD == 1
YawThreshold == 1
PerUnit == 100
RateWindow == 1000
SweepPeriod == 5000
SmallHop == 5
TeleportDistance == 20
spawnRadius == 40
StandHeight == 100
NicknameMax == 12
MaxCharacterType == 2

Sockets == 1..NSockets
FanoutSockets == 1..NFanoutSockets

---------------------------------------------------------------------------
(* JavaScript values *)

NaN == 0 - 1000000000

JsUndefined == [t |-> "undefined", n |-> 0, s |-> <<>>]
JsNull == [t |-> "null", n |-> 0, s |-> <<>>]
JsObject == [t |-> "object", n |-> 0, s |-> <<>>]
JsNum(n) == [t |-> "number", n |-> n, s |-> <<>>]
JsStr(s) == [t |-> "string", n |-> 0, s |-> s]

\* typeof v === 'number'  (true of NaN)
IsNumber(v) == v.t = "number"

\* !v is false
Truthy(v) ==
  CASE v.t = "undefined" -> FALSE
    [] v.t = "null" -> FALSE
    [] v.t = "number" -> v.n # 0 /\ v.n # NaN
    [] v.t = "string" -> Len(v.s) > 0
    [] OTHER -> TRUE

WhiteSpace == {" ", "\t", "\n"}

RECURSIVE TrimStart(_)
TrimStart(s) ==
  IF s # <<>> /\ Head(s) \in WhiteSpace THEN TrimStart(Tail(s)) ELSE s

RECURSIVE TrimEnd(_)
TrimEnd(s) ==
  IF s # <<>> /\ s[Len(s)] \in WhiteSpace THEN TrimEnd(SubSeq(s, 1, Len(s) - 1)) ELSE s

\* String.prototype.trim
Trim(s) == TrimEnd(TrimStart(s))

\* mutant: the nickname stored without the cut to n characters
SliceNone(s, n) == s

\* String.prototype.slice(0, n)
Slice0(s, n) == SubSeq(s, 1, IF Len(s) < n THEN Len(s) ELSE n)

Digits == <<"0", "1", "2", "3", "4", "5", "6", "7", "8", "9">>
DigitOf(c) == (CHOOSE i \in 1..10 : Digits[i] = c) - 1
IsDigits(s) == \A i \in 1..Len(s) : \E j \in 1..10 : Digits[j] = s[i]

RECURSIVE DigitsValue(_)
DigitsValue(s) ==
  IF s = <<>> THEN 0 ELSE 10 * DigitsValue(SubSeq(s, 1, Len(s) - 1)) + DigitOf(s[Len(s)])

\* ToNumber, as the relational operators apply it to an operand that is no number:
\* null is 0, undefined and a plain object are NaN, a string is its trimmed
\* decimal value (the empty string is 0) or NaN.
ToNumber(v) ==
  CASE v.t = "number" -> v.n
    [] v.t = "null" -> 0
    [] v.t = "string" ->
         IF IsDigits(Trim(v.s)) THEN DigitsValue(Trim(v.s)) * PerUnit ELSE NaN
    [] OTHER -> NaN

\* a < b and a > b on numbers: false when either is NaN
NumLt(a, b) == a # NaN /\ b # NaN /\ a < b
NumGt(a, b) == a # NaN /\ b # NaN /\ a > b

\* a - b, a + b, a ** 2, Math.abs(a)
NumSub(a, b) == IF a = NaN \/ b = NaN THEN NaN ELSE a - b
NumAdd(a, b) == IF a = NaN \/ b = NaN THEN NaN ELSE a + b
NumSq(a) == IF a = NaN THEN NaN ELSE a * a
NumAbs(a) == IF a = NaN THEN NaN ELSE IF a < 0 THEN 0 - a ELSE a

RECURSIVE ISqrtIn(_, _, _)
ISqrtIn(n, lo, hi) ==
  IF lo >= hi THEN lo
  ELSE LET mid == (lo + hi + 1) \div 2
       IN IF mid * mid <= n THEN ISqrtIn(n, mid, hi) ELSE ISqrtIn(n, lo, mid - 1)

\* Math.sqrt on a sum of squares, to the fixed-point step
ISqrt(n) == ISqrtIn(n, 0, 46340)

---------------------------------------------------------------------------
(* Objects as tables: own keys are the domain *)

Put(tbl, k, v) == [x \in DOMAIN tbl \cup {k} |-> IF x = k THEN v ELSE tbl[x]]
\* mutant: a delete that removes nothing
DeleteNothing(tbl, k) == tbl

\* delete tbl[k]
Delete(tbl, k) == [x \in DOMAIN tbl \ {k} |-> tbl[x]]
NumKeys(tbl) == Cardinality(DOMAIN tbl)
Count(cnt, k) == IF k \in DOMAIN cnt THEN cnt[k] ELSE 0
Bump(cnt, k) == Put(cnt, k, Count(cnt, k) + 1)

(* Emissions.  socket.emit reaches the socket, socket.broadcast.emit every
   connected socket but it, io.emit every connected socket. *)
Emission(ev, to, payload) == [ev |-> ev, payload |-> payload, to |-> to]
ToSender(s) == {s}
ToOthers(s, conns) == conns \ {s}
ToAll(conns) == conns

Handled(op, s, res) == [op |-> op, s |-> s, res |-> res]

\* history of a playerMove: found is the updateCount the limiter read from the
\* entry of the socket (-1: no entry, or the payload did not get that far)
HandledMove(s, res, found) ==
  [op |-> "playerMove", s |-> s, res |-> res, found |-> found]

\* history: the positions announced, after a handler of socket s emitted these;
\* the observer notes them from the time it started
Announced(tbl, s, emissions) ==
  LET about == {i \in DOMAIN emissions :
                  /\ emissions[i].ev \in {"newPlayer", "playerMoved"}
                  /\ emissions[i].to # {}}
  IN IF about = {} \/ obsStart < 0 THEN tbl
     ELSE [x \in DOMAIN tbl \cup {s} |->
             IF x = s THEN emissions[CHOOSE i \in about : TRUE].payload.position
             ELSE tbl[x]]

---------------------------------------------------------------------------
(* Payloads *)

\* the argument of a 'join' event: an object with these fields, or no object
JoinData(t, nickname, characterType) ==
  [t |-> t, nickname |-> nickname, characterType |-> characterType]

\* the argument of a 'playerMove' event
MoveData(t, x, y, z, ry) == [t |-> t, x |-> x, y |-> y, z |-> z, ry |-> ry]

\* const { a, b } = data  throws a TypeError on undefined and on null
DestructureThrows(data) == data.t \in {"undefined", "null"}

\* data.f: a property of an object; a primitive has none of these
Field(data, v) == IF data.t = "object" THEN v ELSE JsUndefined

---------------------------------------------------------------------------
(* The reference rate limiter: the admit(id, now) policy that the server's
   limiter is compared with.  Its RateState lives and dies with the Player. *)

PolicyNew(t) == [windowStart |-> t, updateCount |-> 0, lastAcceptedAt |-> t]

\* deny under the minimum interval; else start a new window when the current
\* one is older than 1000 ms; deny at the cap; else allow and count
PolicyAdmit(state, t) ==
  IF t - state.lastAcceptedAt < MIN_UPDATE_INTERVAL
  THEN [allow |-> FALSE, state |-> state]
  ELSE LET w == IF t - state.windowStart > RateWindow
                THEN [state EXCEPT !.windowStart = t, !.updateCount = 0]
                ELSE state
       IN IF w.updateCount >= MAX_UPDATE_RATE
          THEN [allow |-> FALSE, state |-> w]
          ELSE [allow |-> TRUE,
                state |-> [w EXCEPT !.updateCount = @ + 1, !.lastAcceptedAt = t]]

---------------------------------------------------------------------------
(* The browser client: App.js, hooks/usePlayers.js, hooks/usePlayerSync.js *)

\* a ref still at its initial 0, against a Date.now() of these days
NeverYet == 0 - 1000000

\* const INTERVAL = 50
SyncInterval == 50
\* now - lastHeartbeatRef.current > 1500
HeartbeatEvery == 1500

\* useState / useRef at mount: hasJoined, isPaused, playersList of usePlayers,
\* lastTimeRef, lastHeartbeatRef, lastSentRef of PlayerSync; frameAt is the time
\* of the last useFrame callback
NewApp ==
  [hasJoined |-> FALSE, isPaused |-> FALSE, playersList |-> << >>,
   lastTime |-> NeverYet, lastHeartbeat |-> NeverYet, lastSent |-> << >>,
   frameAt |-> NeverYet]

\* what JSON carries of a value: NaN goes as null
OnWire(v) == IF v.t = "number" /\ v.n = NaN THEN JsNull ELSE v

\* `Player-${id.slice(0, 6)}`
PlaceholderNickname(id) ==
  <<"P", "l", "a", "y", "e", "r", "-">> \o [i \in 1..6 |-> ToString(id)]

\* nickname?.trim().slice(0, 12) || 'Unknown'
ClientNickname(nickname) ==
  LET n == Slice0(Trim(nickname), NicknameMax)
  IN IF n = << >> THEN <<"U", "n", "k", "n", "o", "w", "n">> ELSE n

\* characterType || 0
ClientCharacterType(v) == IF Truthy(OnWire(v)) THEN OnWire(v) ELSE JsNum(0)

\* addPlayer: the entry of the id is set, or replaced, in playersList
addPlayer(list, player) ==
  Put(list, player.id,
      [nickname |-> ClientNickname(player.nickname),
       characterType |-> ClientCharacterType(player.characterType)])

\* updatePlayer: only the Map of positions changes, but a player not yet known
\* is created with a placeholder name
updatePlayer(list, payload) ==
  IF payload.position.x = NaN THEN list
  ELSE IF payload.id \in DOMAIN list THEN list
  ELSE Put(list, payload.id,
           [nickname |-> PlaceholderNickname(payload.id), characterType |-> JsNum(0)])

\* removePlayer
removePlayer(list, id) == Delete(list, id)

\* socket.on('currentPlayers'): addPlayer for every player but oneself
OnCurrentPlayers(c, list, tbl) ==
  [id \in DOMAIN list \cup (DOMAIN tbl \ {c}) |->
     IF id \in DOMAIN tbl \ {c} THEN addPlayer(list, tbl[id])[id] ELSE list[id]]

\* the handler of one event on the client of connection c
Receive(c, list, e) ==
  CASE e.ev = "currentPlayers" -> OnCurrentPlayers(c, list, e.payload)
    [] e.ev = "newPlayer" -> IF e.payload.id # c THEN addPlayer(list, e.payload) ELSE list
    [] e.ev = "playerMoved" -> updatePlayer(list, e.payload)
    [] e.ev = "playerDisconnected" -> removePlayer(list, e.payload)
    [] OTHER -> list

RECURSIVE ReceiveAll(_, _, _)
ReceiveAll(c, list, emissions) ==
  IF emissions = << >> THEN list
  ELSE ReceiveAll(c,
                  IF c \in Head(emissions).to THEN Receive(c, list, Head(emissions))
                  ELSE list,
                  Tail(emissions))

\* every client has handled, in order, the events emitted to it
Deliver(clients, emissions) ==
  [c \in DOMAIN clients |->
     [clients[c] EXCEPT !.playersList = ReceiveAll(c, @, emissions)]]

\* handleJoin: setHasJoined(true), then socket.emit('join', ...)
handleJoin(clients, s) ==
  IF s \in DOMAIN clients THEN [clients EXCEPT ![s].hasJoined = TRUE] ELSE clients

\* if (!socket || !socket.connected || isPaused || !world) return
FramePaused(c) == c.isPaused

\* if (now - lastTimeRef.current < INTERVAL) return
Throttled(c, t) == t - c.lastTime < SyncInterval

\* hasChanged: nothing sent yet, or a coordinate or the yaw more than 0.0005 off
HasChanged(c, data) ==
  IF c.lastSent = << >> THEN TRUE
  ELSE LET was == c.lastSent[1]
       IN << was.x.n, was.y.n, was.z.n, was.ry.n >>
            # << data.x.n, data.y.n, data.z.n, data.ry.n >>

\* needsHeartbeat
NeedsHeartbeat(c, t) == t - c.lastHeartbeat > HeartbeatEvery

\* the refs of PlayerSync after socket.emit('playerMove', ...)
Synced(clients, s, data, t) ==
  IF s \in DOMAIN clients
  THEN [clients EXCEPT ![s] =
          [@ EXCEPT !.lastTime = t,
                    !.lastSent = << data >>,
                    !.lastHeartbeat = IF NeedsHeartbeat(clients[s], t) THEN t ELSE @,
                    !.frameAt = t]]
  ELSE clients

---------------------------------------------------------------------------
(* socket.on('join') *)

\* !nickname || nickname.trim().length === 0, when it does not throw
NicknameRejected(nickname) ==
  ~Truthy(nickname) \/ Len(Trim(nickname.s)) = 0

\* nickname.trim is not a function: a truthy value that is no string
NicknameThrows(nickname) == Truthy(nickname) /\ nickname.t # "string"

\* characterType === undefined || characterType < 0 || characterType > 2
CharacterTypeRejected(characterType) ==
  \/ characterType.t = "undefined"
  \/ NumLt(ToNumber(characterType), 0)
  \/ NumGt(ToNumber(characterType), MaxCharacterType * PerUnit)

\* how the validation of a join ends
JoinOutcome(data) ==
  IF DestructureThrows(data) THEN "throw"
  ELSE LET nickname == Field(data, data.nickname)
           characterType == Field(data, data.characterType)
       IN IF NicknameThrows(nickname) THEN "throw"
          ELSE IF NicknameRejected(nickname) THEN "badNickname"
          ELSE IF CharacterTypeRejected(characterType) THEN "badCharacterType"
          ELSE "ok"

\* the spawn points Math.random() can give: inside the circle of spawnRadius
InSpawnArea(p) == p.x * p.x + p.z * p.z < (spawnRadius * PerUnit) * (spawnRadius * PerUnit)

\* players[socket.id] = { ... }
NewPlayer(s, data, spawn, t) ==
  [id |-> s,
   nickname |-> Slice0(Trim(data.nickname.s), NicknameMax),
   characterType |-> data.characterType,
   position |-> [x |-> spawn.x, y |-> StandHeight, z |-> spawn.z],
   rotation |-> [x |-> 0, y |-> spawn.ry, z |-> 0],
   lastUpdate |-> t]

\* mutant: the rate entry of a join without the time of the join
NewRateUnstamped(t) == [lastUpdate |-> 0, updateCount |-> 0]

\* playerUpdateRate[socket.id] = { lastUpdate: Date.now(), updateCount: 0 }
NewRate(t) == [lastUpdate |-> t, updateCount |-> 0]

\* mutant: the newPlayer broadcast through io.emit, which reaches the sender too
NewPlayerToAll(s, tbl, conns) ==
  IF NumKeys(tbl) > 1
  THEN << Emission("newPlayer", ToAll(conns), tbl[s]) >>
  ELSE << >>

\* if (Object.keys(players).length > 1) socket.broadcast.emit('newPlayer', ...)
NewPlayerBroadcast(s, tbl, conns) ==
  IF NumKeys(tbl) > 1
  THEN << Emission("newPlayer", ToOthers(s, conns), tbl[s]) >>
  ELSE << >>

\* mutant: the snapshot taken before the joiner is registered
JoinEmissionsStale(s, tbl, conns) ==
  << Emission("currentPlayers", ToSender(s), Delete(tbl, s)) >>
    \o (IF NumKeys(tbl) > 1
        THEN << Emission("newPlayer", ToOthers(s, conns), tbl[s]) >>
        ELSE << >>)

\* socket.emit('currentPlayers', players), then the newPlayer broadcast
JoinEmissions(s, tbl, conns) ==
  << Emission("currentPlayers", ToSender(s), tbl) >> \o NewPlayerBroadcast(s, tbl, conns)

\* mutant: the error broadcast to every connection
JoinErrorToAll(s, outcome) ==
  << Emission("error", open, "Nickname invalido") >>

JoinError(s, outcome) ==
  << Emission("error", ToSender(s),
              IF outcome = "badNickname" THEN "Nickname invalido"
              ELSE "Tipo de personagem invalido") >>

\* The handler runs to its end within one millisecond: its two Date.now() calls
\* read the same time.  spawn is what the three Math.random() calls give.
Join(s, data, spawn) ==
  /\ ~crashed
  /\ s \in open
  /\ InSpawnArea(spawn)
  /\ LET outcome == JoinOutcome(data)
     IN /\ last' = Handled("join", s, outcome)
        /\ crashed' = (outcome = "throw")
        /\ IF outcome = "ok"
           THEN /\ players' = Put(players, s, NewPlayer(s, data, spawn, now))
                /\ playerUpdateRate' = Put(playerUpdateRate, s, NewRate(now))
                /\ sent' = JoinEmissions(s, players', open)
                /\ nJoined' = IF s \in DOMAIN players THEN nJoined ELSE Bump(nJoined, s)
                /\ admittedAt' = Put(admittedAt, s, now)
                /\ policy' = Put(policy, s, PolicyNew(now))
                /\ announced' = Announced(announced, s, sent')
           ELSE /\ sent' = IF outcome = "throw" THEN << >> ELSE JoinError(s, outcome)
                /\ UNCHANGED <<players, playerUpdateRate, nJoined, admittedAt, policy,
                               announced>>
  /\ app' = Deliver(handleJoin(app, s), sent')
  /\ UNCHANGED <<open, closed, now, nextSweep, nDisconnected, obsStart, obsCount>>

---------------------------------------------------------------------------
(* socket.on('playerMove') *)

\* if (!data || typeof data !== 'object') return   (typeof null is 'object')
MoveDataInvalid(data) ==
  \/ data.t \in {"undefined", "null"}
  \/ ~(data.t \in {"object", "null"})

\* mutant: the limiter without its minimum interval
TooSoonNever(rate, t) == FALSE

\* now - rateLimit.lastUpdate < CONFIG.MIN_UPDATE_INTERVAL
TooSoon(rate, t) == t - rate.lastUpdate < MIN_UPDATE_INTERVAL

\* mutant: the counter never set back
CountNeverReset(rate, t) == rate.updateCount

\* if (timeSinceLastUpdate > 1000) rateLimit.updateCount = 0
CountAfterReset(rate, t) ==
  IF t - rate.lastUpdate > RateWindow THEN 0 ELSE rate.updateCount

\* rateLimit.updateCount >= CONFIG.MAX_UPDATE_RATE
OverRate(count) == count >= MAX_UPDATE_RATE

\* mutant: a limiter that stamps the entry with the time of a denied move too
RateLimitStamping(has, rate, t) ==
  IF ~has
  THEN [res |-> "pass", has |-> TRUE, rate |-> [lastUpdate |-> t, updateCount |-> 1]]
  ELSE IF TooSoon(rate, t)
  THEN [res |-> "tooSoon", has |-> TRUE, rate |-> [rate EXCEPT !.lastUpdate = t]]
  ELSE IF OverRate(CountAfterReset(rate, t))
  THEN [res |-> "rateLimited", has |-> TRUE, rate |-> [rate EXCEPT !.lastUpdate = t]]
  ELSE [res |-> "pass", has |-> TRUE,
        rate |-> [lastUpdate |-> t, updateCount |-> CountAfterReset(rate, t) + 1]]

\* The rate limiter on the entry of a socket (or on none): whether the move
\* goes on, and the entry it leaves in playerUpdateRate.
RateLimit(has, rate, t) ==
  IF ~has
  THEN [res |-> "pass", has |-> TRUE, rate |-> [lastUpdate |-> t, updateCount |-> 1]]
  ELSE IF TooSoon(rate, t)
  THEN [res |-> "tooSoon", has |-> TRUE, rate |-> rate]
  ELSE LET count == CountAfterReset(rate, t)
       IN IF OverRate(count)
          THEN [res |-> "rateLimited", has |-> TRUE,
                rate |-> [lastUpdate |-> rate.lastUpdate, updateCount |-> count]]
          ELSE [res |-> "pass", has |-> TRUE,
                rate |-> [lastUpdate |-> t, updateCount |-> count + 1]]

\* typeof x === 'number' ? x : 0
NumberOr0(v) == IF IsNumber(v) THEN v.n ELSE 0

\* mutant: the height of a number kept as reported, 0 too
HeightKept(v) == IF IsNumber(v) THEN v.n ELSE StandHeight

\* typeof y === 'number' ? (y === 0 ? 1.0 : y) : 1.0
HeightOf(v) == IF IsNumber(v) THEN (IF v.n = 0 THEN StandHeight ELSE v.n) ELSE StandHeight

\* distanceFromCenter > CONFIG.MAX_POSITION_DISTANCE, on the squares
OutOfBounds(x, z) ==
  NumGt(NumAdd(NumSq(x), NumSq(z)),
        (MAX_POSITION_DISTANCE * PerUnit) * (MAX_POSITION_DISTANCE * PerUnit))

\* Math.cos(Math.atan2(z, x)) * MAX_POSITION_DISTANCE is c * MAX / sqrt(x^2 + z^2)
\* for the coordinate c, rounded to the nearest step
Scaled(c, d) ==
  LET m == (IF c < 0 THEN 0 - c ELSE c) * (MAX_POSITION_DISTANCE * PerUnit)
      q == (2 * m + d) \div (2 * d)
  IN IF c < 0 THEN 0 - q ELSE q

\* mutant: each coordinate cut to the bound on its own, which turns the bearing
ClampPerAxis(x, z) ==
  LET r == MAX_POSITION_DISTANCE * PerUnit
      cut(c) == IF c > r THEN r ELSE IF c < 0 - r THEN 0 - r ELSE c
  IN [x |-> cut(x), z |-> cut(z)]

\* the bounds clamp of x and z
Clamp(x, z) ==
  IF OutOfBounds(x, z)
  THEN LET d == ISqrt(x * x + z * z)
       IN [x |-> Scaled(x, d), z |-> Scaled(z, d)]
  ELSE [x |-> x, z |-> z]

\* dx ** 2 + dy ** 2 + dz ** 2
Dist2(p, q) ==
  NumAdd(NumAdd(NumSq(NumSub(p.x, q.x)), NumSq(NumSub(p.y, q.y))), NumSq(NumSub(p.z, q.z)))

\* now - (rateLimit?.lastUpdate || now - CONFIG.MIN_UPDATE_INTERVAL): rateLimit is
\* the entry read before the limiter ran, and the limiter has written now into it
TimeDelta(had, lastUpdate, t) ==
  t - (IF had /\ lastUpdate # 0 THEN lastUpdate ELSE t - MIN_UPDATE_INTERVAL)

RECURSIVE GCD(_, _)
GCD(a, b) == IF b = 0 THEN a ELSE GCD(b, a % b)

\* velocity > CONFIG.MAX_VELOCITY, with velocity = distance / (timeDelta / 1000):
\* distance * 1000 > MAX_VELOCITY * timeDelta, on the squares, the ratio reduced
TooFast(d2, timeDelta) ==
  LET g == GCD(MAX_VELOCITY * PerUnit, 1000)
      num == (MAX_VELOCITY * PerUnit) \div g
      den == 1000 \div g
  IN NumGt(d2, ((num * timeDelta) * (num * timeDelta)) \div (den * den))

\* if (velocity > MAX_VELOCITY && distance > 5) { if (distance < 20) keep oldPos }
Suspicious(d2, timeDelta) ==
  /\ timeDelta > 0
  /\ TooFast(d2, timeDelta)
  /\ NumGt(d2, (SmallHop * PerUnit) * (SmallHop * PerUnit))
  /\ NumLt(d2, (TeleportDistance * PerUnit) * (TeleportDistance * PerUnit))

\* the velocity check: the position to store for a player at oldPos
VelocityChecked(oldPos, pos, timeDelta) ==
  IF Suspicious(Dist2(pos, oldPos), timeDelta) THEN oldPos ELSE pos

\* mutant: a difference equal to the threshold counted as a change
DiffersAtLeast(a, b, threshold) ==
  NumAbs(NumSub(a, b)) # NaN /\ NumAbs(NumSub(a, b)) >= threshold

\* Math.abs(a - b) > threshold
Differs(a, b, threshold) == NumGt(NumAbs(NumSub(a, b)), threshold)

\* hasSignificantChange
HasSignificantChange(player, pos, ry) ==
  \/ Differs(pos.x, player.position.x, POSITION_THRESHOLD)
  \/ Differs(pos.y, player.position.y, POSITION_THRESHOLD)
  \/ Differs(pos.z, player.position.z, POSITION_THRESHOLD)
  \/ Differs(ry, player.rotation.y, YawThreshold)

\* validatedPosition, before the velocity check
Validated(data) ==
  LET c == Clamp(NumberOr0(data.x), NumberOr0(data.z))
  IN [x |-> c.x, y |-> HeightOf(data.y), z |-> c.z]

MovedPayload(s, pos, ry) ==
  [id |-> s, position |-> pos, rotation |-> [x |-> 0, y |-> ry, z |-> 0]]

\* mutant: the playerMoved delta through io.emit, which reaches the mover too
MoveEmissionsToAll(s, player, pos, ry, conns) ==
  IF HasSignificantChange(player, pos, ry)
  THEN << Emission("playerMoved", ToAll(conns), MovedPayload(s, pos, ry)) >>
  ELSE << >>

\* socket.broadcast.emit('playerMoved', ...) when hasSignificantChange
MoveEmissions(s, player, pos, ry, conns) ==
  IF HasSignificantChange(player, pos, ry)
  THEN << Emission("playerMoved", ToOthers(s, conns), MovedPayload(s, pos, ry)) >>
  ELSE << >>

\* mutant: a move of a socket without Player announced as a new player
UnknownPlayerAnnounced(s, conns) ==
  << Emission("newPlayer", ToOthers(s, conns), [id |-> s]) >>

\* else { console.warn(...) }: a move of a socket without Player emits nothing
UnknownPlayerEmissions(s, conns) == << >>

\* the moves of the observed interval that passed the limiter
Observed(passed) ==
  IF passed /\ obsStart >= 0 /\ now < obsStart + RateWindow /\ obsCount <= MAX_UPDATE_RATE
  THEN obsCount + 1 ELSE obsCount

PlayerMove(s, data) ==
  /\ ~crashed
  /\ s \in open
  /\ IF MoveDataInvalid(data)
     THEN /\ last' = HandledMove(s, "invalid", -1)
          /\ sent' = << >>
          /\ UNCHANGED <<players, playerUpdateRate, obsCount, admittedAt, policy,
                         announced>>
     ELSE LET had == s \in DOMAIN playerUpdateRate
              lim == RateLimit(had, IF had THEN playerUpdateRate[s] ELSE NewRate(0), now)
              found == IF had THEN playerUpdateRate[s].updateCount ELSE -1
          IN /\ playerUpdateRate' = Put(playerUpdateRate, s, lim.rate)
             /\ obsCount' = Observed(lim.res = "pass")
             /\ admittedAt' = IF lim.res = "pass" THEN Put(admittedAt, s, now) ELSE admittedAt
             /\ policy' = IF s \in DOMAIN policy
                          THEN Put(policy, s, PolicyAdmit(policy[s], now).state)
                          ELSE policy
             /\ IF lim.res # "pass"
                THEN /\ last' = HandledMove(s, lim.res, found)
                     /\ sent' = << >>
                     /\ UNCHANGED <<players, announced>>
                ELSE IF s \notin DOMAIN players
                THEN /\ last' = HandledMove(s, "noPlayer", found)
                     /\ sent' = UnknownPlayerEmissions(s, open)
                     /\ UNCHANGED <<players, announced>>
                ELSE LET player == players[s]
                         ry == NumberOr0(data.ry)
                         pos == VelocityChecked(player.position, Validated(data),
                                                TimeDelta(had, lim.rate.lastUpdate, now))
                     IN /\ players' = Put(players, s,
                              [player EXCEPT !.position = pos,
                                             !.rotation = [x |-> 0, y |-> ry, z |-> 0],
                                             !.lastUpdate = now])
                        /\ sent' = MoveEmissions(s, player, pos, ry, open)
                        /\ announced' = Announced(announced, s, sent')
                        /\ last' = HandledMove(s, "stored", found)
  /\ app' = Deliver(Synced(app, s, data, now), sent')
  /\ UNCHANGED <<open, closed, now, nextSweep, crashed, nJoined, nDisconnected, obsStart>>

---------------------------------------------------------------------------
(* io.on('connection'), socket.on('disconnect') *)

\* a new socket; ids are handed out in order and never again
Connect(s) ==
  /\ ~crashed
  /\ s = Cardinality(open \cup closed) + 1
  /\ open' = open \cup {s}
  /\ sent' = << >>
  /\ last' = Handled("connection", s, "ok")
  /\ UNCHANGED <<closed, players, playerUpdateRate, now, nextSweep, crashed,
                 nJoined, nDisconnected, obsStart, obsCount, admittedAt, policy,
                 announced, app>>

\* a browser opens the page: useSocket connects, App registers its handlers
AppConnect(s) ==
  /\ ~crashed
  /\ s = Cardinality(open \cup closed) + 1
  /\ open' = open \cup {s}
  /\ sent' = << >>
  /\ last' = Handled("connection", s, "ok")
  /\ app' = Put(app, s, NewApp)
  /\ UNCHANGED <<closed, players, playerUpdateRate, now, nextSweep, crashed,
                 nJoined, nDisconnected, obsStart, obsCount, admittedAt, policy,
                 announced>>

\* mutant: the disconnect handler without its guard
DisconnectAlwaysFinds(s, tbl) == TRUE

\* if (players[socket.id])
DisconnectFindsPlayer(s, tbl) == s \in DOMAIN tbl

Disconnect(s) ==
  /\ ~crashed
  /\ s \in open
  /\ open' = open \ {s}
  /\ closed' = closed \cup {s}
  /\ IF DisconnectFindsPlayer(s, players)
     THEN /\ players' = Delete(players, s)
          /\ playerUpdateRate' = Delete(playerUpdateRate, s)
          /\ sent' = << Emission("playerDisconnected", ToOthers(s, open'), s) >>
          /\ nDisconnected' = Bump(nDisconnected, s)
          /\ policy' = Delete(policy, s)
          /\ announced' = Delete(announced, s)
          /\ last' = Handled("disconnect", s, "removed")
     ELSE /\ sent' = << >>
          /\ last' = Handled("disconnect", s, "absent")
          /\ UNCHANGED <<players, playerUpdateRate, nDisconnected, policy, announced>>
  /\ app' = Deliver(Delete(app, s), sent')
  /\ UNCHANGED <<now, nextSweep, crashed, nJoined, obsStart, obsCount, admittedAt>>

---------------------------------------------------------------------------
(* startHeartbeat: the setInterval callback *)

\* mutant: the sweep with the timeout one period too long
InactiveLate(player, t) == t - player.lastUpdate > HEARTBEAT_TIMEOUT + SweepPeriod

\* mutant: the sweep removing a player exactly HEARTBEAT_TIMEOUT old
InactiveEarly(player, t) == t - player.lastUpdate >= HEARTBEAT_TIMEOUT

\* now - (player.lastUpdate || 0) > CONFIG.HEARTBEAT_TIMEOUT
Inactive(player, t) == t - player.lastUpdate > HEARTBEAT_TIMEOUT

InactivePlayers(tbl, t) == {id \in DOMAIN tbl : Inactive(tbl[id], t)}

\* the orders in which a set of ids can stand in Object.keys(players)
Orders(ids) ==
  {o \in [1..Cardinality(ids) -> ids] : \A i, j \in DOMAIN o : i # j => o[i] # o[j]}

\* io.emit('playerDisconnected', playerId) for each id removed
SweepEmissions(order, conns) ==
  [i \in DOMAIN order |-> Emission("playerDisconnected", ToAll(conns), order[i])]

HeartbeatSweep ==
  /\ ~crashed
  /\ now = nextSweep
  /\ nextSweep' = nextSweep + SweepPeriod
  /\ LET gone == InactivePlayers(players, now)
     IN /\ players' = [id \in DOMAIN players \ gone |-> players[id]]
        /\ playerUpdateRate' =
             [id \in DOMAIN playerUpdateRate \ gone |-> playerUpdateRate[id]]
        /\ nDisconnected' =
             [id \in DOMAIN nDisconnected \cup gone |->
                Count(nDisconnected, id) + IF id \in gone THEN 1 ELSE 0]
        /\ policy' = [id \in DOMAIN policy \ gone |-> policy[id]]
        /\ announced' = [id \in DOMAIN announced \ gone |-> announced[id]]
        /\ \E order \in Orders(gone) : sent' = SweepEmissions(order, open)
        /\ last' = Handled("sweep", 0, IF gone = {} THEN "none" ELSE "removed")
  /\ app' = Deliver(app, sent')
  /\ UNCHANGED <<open, closed, now, crashed, nJoined, obsStart, obsCount, admittedAt>>

---------------------------------------------------------------------------
(* The clock, and the observer of one 1000 ms interval *)

\* requestAnimationFrame: a client that shows the world has run its useFrame
\* callback at the current time
FramesDone == \A s \in DOMAIN app : app[s].hasJoined => app[s].frameAt = now

\* time passes; the interval timer fires when it is due
Tick(d, limit) ==
  /\ ~crashed
  /\ now + d <= limit
  /\ now + d <= nextSweep
  /\ FramesDone
  /\ now' = now + d
  /\ sent' = << >>
  /\ last' = Handled("tick", 0, "ok")
  /\ UNCHANGED <<open, closed, players, playerUpdateRate, nextSweep, crashed,
                 nJoined, nDisconnected, obsStart, obsCount, admittedAt, policy,
                 announced, app>>

\* the observer starts: from now on it counts the moves that pass the limiter
\* and notes the positions that are announced
Observe ==
  /\ ~crashed
  /\ obsStart < 0
  /\ obsStart' = now
  /\ UNCHANGED <<open, closed, players, playerUpdateRate, now, nextSweep, crashed,
                 sent, last, nJoined, nDisconnected, obsCount, admittedAt, policy,
                 announced, app>>

---------------------------------------------------------------------------
(* The client's own steps *)

\* handleJoin of the join screen, which is gone once hasJoined is set
AppJoin(s, data, spawn) ==
  /\ s \in DOMAIN app
  /\ ~app[s].hasJoined
  /\ Join(s, data, spawn)

\* a useFrame callback of PlayerSync runs
FrameRuns(s) ==
  /\ ~crashed
  /\ s \in DOMAIN app
  /\ app[s].hasJoined
  /\ app[s].frameAt # now

\* the callback that emits playerMove, with the controller at data
FrameSend(s, data) ==
  /\ FrameRuns(s)
  /\ ~FramePaused(app[s])
  /\ ~Throttled(app[s], now)
  /\ HasChanged(app[s], data) \/ NeedsHeartbeat(app[s], now)
  /\ PlayerMove(s, data)

\* the callback that returns without emitting
FrameIdle(s, data) ==
  /\ FrameRuns(s)
  /\ \/ FramePaused(app[s])
     \/ Throttled(app[s], now)
     \/ ~(HasChanged(app[s], data) \/ NeedsHeartbeat(app[s], now))
  /\ app' = [app EXCEPT ![s].frameAt = now,
                        ![s].lastTime =
                          IF FramePaused(app[s]) \/ Throttled(app[s], now) THEN @ ELSE now]
  /\ UNCHANGED <<open, closed, players, playerUpdateRate, now, nextSweep, crashed,
                 sent, last, nJoined, nDisconnected, obsStart, obsCount, admittedAt,
                 policy, announced>>

\* the Escape key: setIsPaused(prev => !prev)
TogglePause(s) ==
  /\ ~crashed
  /\ s \in DOMAIN app
  /\ app[s].hasJoined
  /\ app' = [app EXCEPT ![s].isPaused = ~@]
  /\ UNCHANGED <<open, closed, players, playerUpdateRate, now, nextSweep, crashed,
                 sent, last, nJoined, nDisconnected, obsStart, obsCount, admittedAt,
                 policy, announced>>

---------------------------------------------------------------------------
\* app.get('/health'): { status: 'ok', players: Object.keys(players).length }
Health(tbl) == [status |-> "ok", players |-> NumKeys(tbl)]

---------------------------------------------------------------------------
Init ==
  /\ open = {}
  /\ closed = {}
  /\ players = << >>
  /\ playerUpdateRate = << >>
  /\ now = 0
  /\ nextSweep = SweepPeriod
  /\ crashed = FALSE
  /\ sent = << >>
  /\ last = Handled("listen", 0, "ok")
  /\ nJoined = << >>
  /\ nDisconnected = << >>
  /\ obsStart = -1
  /\ obsCount = 0
  /\ admittedAt = << >>
  /\ policy = << >>
  /\ announced = << >>
  /\ app = << >>

(* Inputs *)
Fix(n) == JsNum(n * PerUnit)
JsNaN == JsNum(NaN)
NoFields(t) == JoinData(t, JsUndefined, JsUndefined)
JoinOf(nickname, characterType) == JoinData("object", nickname, characterType)
MoveOf(x, y, z, ry) == MoveData("object", x, y, z, ry)
NoMove(t) == MoveData(t, JsUndefined, JsUndefined, JsUndefined, JsUndefined)
Spawn(x, z, ry) == [x |-> x, z |-> z, ry |-> ry]

GoodJoin == JoinOf(JsStr(<<"A", "l">>), Fix(1))
Origin == Spawn(0, 0, 0)
Walk == MoveOf(Fix(3), Fix(1), Fix(4), Fix(0))
Hop == MoveOf(Fix(10), Fix(1), Fix(0), Fix(0))

---------------------------------------------------------------------------
(* Spec: the life cycle of connections, with the heartbeat timer *)

JoinInputs ==
  { GoodJoin,
    JoinOf(JsStr(<<" ", " ">>), Fix(1)),
    JoinOf(JsStr(<<"B", "o">>), Fix(7)),
    NoFields("undefined") }

MoveInputs == { Walk, NoMove("string") }

TickInputs == { SweepPeriod }

Next ==
  \/ \E s \in Sockets : Connect(s)
  \/ \E s \in Sockets, data \in JoinInputs : Join(s, data, Origin)
  \/ \E s \in Sockets, data \in MoveInputs : PlayerMove(s, data)
  \/ \E s \in Sockets : Disconnect(s)
  \/ HeartbeatSweep
  \/ \E d \in TickInputs : Tick(d, MaxTime)

Spec == Init /\ [][Next]_vars

---------------------------------------------------------------------------
(* SpecFanout: who receives what on a join, among three connections *)

NextFanout ==
  \/ \E s \in FanoutSockets : Connect(s)
  \/ \E s \in FanoutSockets, data \in JoinInputs : Join(s, data, Origin)
  \/ \E s \in FanoutSockets : Disconnect(s)

SpecFanout == Init /\ [][NextFanout]_vars

---------------------------------------------------------------------------
(* SpecRate: the rate limiter of one connection, at 50 ms steps *)

RateTickInputs == { MIN_UPDATE_INTERVAL, RateWindow }

NextRate ==
  \/ Connect(1)
  \/ Join(1, GoodJoin, Origin)
  \/ PlayerMove(1, Hop)
  \/ \E d \in RateTickInputs : Tick(d, MaxRateTime)
  \/ Observe

SpecRate == Init /\ [][NextRate]_vars

---------------------------------------------------------------------------
(* SpecMove: the move validator on well-formed moves of one connection *)

WalkInputs ==
  { Walk,
    Hop,
    MoveOf(Fix(0), Fix(0), Fix(0), JsNum(1)),
    MoveOf(Fix(180), Fix(1), Fix(-240), Fix(0)),
    MoveOf(Fix(-300), Fix(2), Fix(0), Fix(3)),
    MoveOf(Fix(90), Fix(1), Fix(120), Fix(0)),
    MoveOf(JsNum(15001), Fix(1), Fix(0), Fix(0)),
    MoveOf(Fix(200), Fix(1), Fix(200), Fix(0)),
    MoveOf(Fix(-100), Fix(1), Fix(200), Fix(0)),
    MoveOf(Fix(1), Fix(1), Fix(-320), Fix(0)),
    MoveOf(Fix(3), Fix(1), JsNum(401), Fix(0)),
    MoveOf(Fix(3), Fix(1), JsNum(402), Fix(0)) }

SpawnInputs == { Origin, Spawn(1200, 1600, 314) }

MoveTickInputs == { MIN_UPDATE_INTERVAL, MIN_UPDATE_INTERVAL - 1 }

NextMove ==
  \/ Connect(1)
  \/ \E spawn \in SpawnInputs : Join(1, GoodJoin, spawn)
  \/ \E data \in WalkInputs : PlayerMove(1, data)
  \/ \E d \in MoveTickInputs : Tick(d, MaxMoveTime)

SpecMove == Init /\ [][NextMove]_vars

---------------------------------------------------------------------------
(* SpecHostile: one connection sending payloads of any shape *)

Named(characterType) == JoinOf(JsStr(<<"B", "o">>), characterType)

HostileJoins ==
  { GoodJoin,
    Named(Fix(0)), Named(Fix(2)), Named(Fix(7)), Named(Fix(-1)),
    Named(JsNum(150)), Named(JsNaN), Named(JsNull), Named(JsUndefined),
    Named(JsStr(<<"a", "b", "c">>)), Named(JsStr(<<"1">>)), Named(JsObject),
    JoinOf(JsStr(<< >>), Fix(1)),
    JoinOf(JsStr(<<" ", "\t">>), Fix(1)),
    JoinOf(JsUndefined, Fix(1)),
    JoinOf(Fix(5), Fix(1)),
    JoinOf(JsObject, Fix(1)),
    NoFields("string"),
    NoFields("null"),
    NoFields("undefined") }

HostileMoves ==
  { Walk,
    MoveOf(JsNaN, Fix(1), Fix(0), Fix(0)),
    MoveOf(Fix(200), JsNaN, JsNaN, JsNaN),
    MoveOf(JsStr(<<"1">>), JsNull, JsUndefined, JsObject),
    MoveOf(Fix(180), Fix(0), Fix(-240), Fix(0)),
    NoMove("string"),
    NoMove("null"),
    NoMove("undefined") }

NextHostile ==
  \/ Connect(1)
  \/ \E data \in HostileJoins : Join(1, data, Origin)
  \/ \E data \in HostileMoves : PlayerMove(1, data)
  \/ Tick(MIN_UPDATE_INTERVAL, MaxMoveTime)

SpecHostile == Init /\ [][NextHostile]_vars

---------------------------------------------------------------------------
(* SpecLive: the heartbeat sweep against the clock, at 2500 ms steps *)

NextLive ==
  \/ \E s \in Sockets : Connect(s)
  \/ \E s \in Sockets : Join(s, GoodJoin, Origin)
  \/ \E s \in Sockets : PlayerMove(s, Walk)
  \/ \E s \in Sockets : Disconnect(s)
  \/ HeartbeatSweep
  \/ Tick(SweepPeriod \div 2, MaxLiveTime)

SpecLive == Init /\ [][NextLive]_vars

---------------------------------------------------------------------------
(* SpecNick: joins with nicknames of many shapes *)

Named12 == <<"a", "b", "c", "d", "e", "f", "g", "h", "i", "j", "k", "l">>

Nicknames ==
  { <<" ", " ", "A", "l", "i", "c", "e", "1", "2", "3", "4", "5", "6", "7", "8", "9",
      " ", " ">>,
    <<"A", "l">>,
    <<" ", "A">>,
    Named12,
    Named12 \o <<"m">>,
    <<"a", " ", "b">>,
    <<"\t">> \o SubSeq(Named12, 1, 11) \o <<" ", " ", "x", "y", "z", "\n">>,
    <<" ", "\t", " ">>,
    << >> }

NickJoins == { JoinOf(JsStr(n), Fix(1)) : n \in Nicknames }

NextNick ==
  \/ \E s \in Sockets : Connect(s)
  \/ \E s \in Sockets, data \in NickJoins : Join(s, data, Origin)
  \/ \E s \in Sockets : Disconnect(s)

SpecNick == Init /\ [][NextNick]_vars

---------------------------------------------------------------------------
(* SpecDrift: small steps of one player while another connection listens *)

DriftInputs ==
  { Walk,
    MoveOf(Fix(3), Fix(1), JsNum(401), Fix(0)),
    MoveOf(Fix(3), Fix(1), JsNum(402), Fix(0)) }

NextDrift ==
  \/ \E s \in Sockets : Connect(s)
  \/ \E s \in Sockets : Join(s, GoodJoin, Origin)
  \/ \E s \in Sockets, data \in DriftInputs : PlayerMove(s, data)
  \/ Tick(MIN_UPDATE_INTERVAL, MaxMoveTime)
  \/ Observe

SpecDrift == Init /\ [][NextDrift]_vars

---------------------------------------------------------------------------
(* SpecLock: one connection that fills its rate counter and then waits *)

LockTickInputs == { MIN_UPDATE_INTERVAL, RateWindow + MIN_UPDATE_INTERVAL }

NextLock ==
  \/ Connect(1)
  \/ Join(1, GoodJoin, Origin)
  \/ PlayerMove(1, Hop)
  \/ \E d \in LockTickInputs : Tick(d, MaxLockTime)

SpecLock == Init /\ [][NextLock]_vars

---------------------------------------------------------------------------
(* SpecApp: the server with browser clients on its connections *)

AppJoins ==
  { GoodJoin,
    JoinOf(JsStr(SubSeq(Named12, 1, 11) \o <<" ", "x">>), Fix(0)) }

FrameInputs == { Walk, Hop }

NextApp ==
  \/ \E s \in Sockets : AppConnect(s)
  \/ \E s \in Sockets, data \in AppJoins : AppJoin(s, data, Origin)
  \/ \E s \in Sockets, data \in FrameInputs : FrameSend(s, data)
  \/ \E s \in Sockets, data \in FrameInputs : FrameIdle(s, data)
  \/ \E s \in Sockets : TogglePause(s)
  \/ \E s \in Sockets : Disconnect(s)
  \/ HeartbeatSweep
  \/ Tick(SweepPeriod \div 2, MaxTime)

SpecApp == Init /\ [][NextApp]_vars

---------------------------------------------------------------------------
(* Claims *)

JoinedOk == last.op = "join" /\ last.res = "ok"
JoinRejected == last.op = "join" /\ last.res \in {"badNickname", "badCharacterType"}
Emitted(ev) == {i \in DOMAIN sent : sent[i].ev = ev}

\* C4: for every id, the playerDisconnected emissions carrying it are as many as
\* the Players of that id that have been removed (one per registration, whether
\* the disconnect handler or the sweep removed it), and a disconnect that finds
\* no Player changes neither table, emits nothing and raises nothing.
C4_OneDisconnectedPerPlayer ==
  [][ /\ \A id \in open' \cup closed' :
           Count(nDisconnected', id) =
             Count(nJoined', id) - (IF id \in DOMAIN players' THEN 1 ELSE 0)
      /\ (last'.op = "disconnect" /\ last'.res = "absent")
           => /\ players' = players
              /\ playerUpdateRate' = playerUpdateRate
              /\ sent' = << >>
              /\ ~crashed'
    ]_vars

\* C4 witness: the sweep has removed a Player and emitted for it, and now the
\* disconnect handler of the same id has run and found nothing
C4_Witness ==
  /\ last.op = "disconnect" /\ last.res = "absent"
  /\ Count(nJoined, last.s) = 1
  /\ Count(nDisconnected, last.s) = 1

\* C7: a join rejected by the validation sends one error to the sender alone,
\* leaves both tables as they were, and leaves the connection open and the
\* process running, which is all a later join of that connection needs.
C7_RejectedJoinChangesNothing ==
  [][ (last'.op = "join" /\ last'.res \in {"badNickname", "badCharacterType"})
        => /\ Len(sent') = 1
           /\ sent'[1].ev = "error"
           /\ sent'[1].to = {last'.s}
           /\ players' = players
           /\ playerUpdateRate' = playerUpdateRate
           /\ last'.s \in open'
           /\ ~crashed'
    ]_vars

\* C7 witness: a join has just been rejected while another player is registered
C7_Witness ==
  /\ JoinRejected
  /\ last.s \notin DOMAIN players
  /\ DOMAIN players # {}

\* C9: no join or playerMove leaves an exception uncaught
C9_NeverCrashes == ~crashed

\* C5: a successful join emits exactly one currentPlayers, first of all it emits
\* and to the joiner alone; its entries are the players registered before the
\* join, as they were, and the joiner's new entry.
C5_SnapshotToJoiner ==
  [][ (last'.op = "join" /\ last'.res = "ok")
        => /\ Len(sent') >= 1
           /\ sent'[1].ev = "currentPlayers"
           /\ sent'[1].to = {last'.s}
           /\ DOMAIN sent'[1].payload = DOMAIN players \cup {last'.s}
           /\ \A id \in DOMAIN players \ {last'.s} : sent'[1].payload[id] = players[id]
           /\ sent'[1].payload[last'.s] = players'[last'.s]
           /\ \A i \in 2..Len(sent') : sent'[i].ev = "newPlayer"
    ]_vars

\* C5 witness: the second player has joined: a snapshot of two, then newPlayer
C5_Witness ==
  /\ JoinedOk
  /\ NumKeys(players) = 2
  /\ Len(sent) = 2
  /\ DOMAIN sent[1].payload = DOMAIN players

\* C6 as claimed: after a successful join every other open connection is sent a
\* newPlayer carrying the new player, and the joiner is sent none.
C6_NewPlayerToAllOthers ==
  JoinedOk =>
    /\ \A c \in open \ {last.s} :
         \E i \in Emitted("newPlayer") :
           c \in sent[i].to /\ sent[i].payload = players[last.s]
    /\ \A i \in Emitted("newPlayer") : last.s \notin sent[i].to

\* C6 as amended: when the join leaves more than one player registered, one
\* newPlayer carrying the new player goes to every open connection but the
\* joiner; when the joiner is the only player, no newPlayer is emitted; the
\* joiner is sent none in either case.
C6_NewPlayerWhenNotAlone ==
  JoinedOk =>
    IF NumKeys(players) > 1
    THEN /\ Cardinality(Emitted("newPlayer")) = 1
         /\ \A i \in Emitted("newPlayer") :
              sent[i].to = open \ {last.s} /\ sent[i].payload = players[last.s]
    ELSE Emitted("newPlayer") = {}

\* C6 witness: a second player joins while a third connection is open and has
\* not joined; that connection is sent the newPlayer
C6_Witness ==
  /\ JoinedOk
  /\ NumKeys(players) = 2
  /\ \E c \in open \ DOMAIN players :
       \E i \in Emitted("newPlayer") : c \in sent[i].to

\* C3: of the moves of one connection, at most MAX_UPDATE_RATE pass the rate
\* limiter in any interval [t, t + 1000 ms): the observer starts such an
\* interval at any time and counts the moves that pass in it.
C3_AtMostMaxRatePerSecond == obsCount <= MAX_UPDATE_RATE

\* C3 witness: MAX_UPDATE_RATE moves have passed within one observed interval
C3_Witness == obsStart >= 0 /\ obsCount = MAX_UPDATE_RATE

WithinRadius(p) ==
  /\ p.x # NaN
  /\ p.z # NaN
  /\ p.x * p.x + p.z * p.z
       <= (MAX_POSITION_DISTANCE * PerUnit) * (MAX_POSITION_DISTANCE * PerUnit)

\* C1: the stored position of every player lies within MAX_POSITION_DISTANCE of
\* the origin in the plane, sqrt(x^2 + z^2) <= 150, whatever the moves carried.
C1_PositionWithinRadius == \A id \in DOMAIN players : WithinRadius(players[id].position)

\* C2: every stored move of a player either leaves the position as it was, or
\* moves it by d >= 20, or moves it by d with d / dt <= MAX_VELOCITY, dt being the
\* time since the previous accepted move (or the join) of that connection.
C2_VelocityBound ==
  [][ (last'.op = "playerMove" /\ last'.res = "stored")
        => LET s == last'.s
               old == players[s].position
               new == players'[s].position
               dt == now - playerUpdateRate[s].lastUpdate
               d2 == Dist2(new, old)
           IN \/ new = old
              \/ d2 # NaN /\ d2 >= (TeleportDistance * PerUnit) * (TeleportDistance * PerUnit)
              \/ d2 # NaN /\ ~TooFast(d2, dt)
    ]_vars

\* C8: the characterType of every stored player is 0, 1 or 2
C8_CharacterTypeValid ==
  \A id \in DOMAIN players : players[id].characterType \in {Fix(0), Fix(1), Fix(2)}

\* C10: no player stays registered for more than HEARTBEAT_TIMEOUT plus one sweep
\* period after its lastUpdate; the sweep removes every player whose lastUpdate is
\* older than HEARTBEAT_TIMEOUT from both tables and emits one playerDisconnected
\* with its id to all connections.
C10_EvictedInTime ==
  [][ /\ \A id \in DOMAIN players' :
           now' - players'[id].lastUpdate <= HEARTBEAT_TIMEOUT + SweepPeriod
      /\ last'.op = "sweep"
           => \A id \in DOMAIN players :
                now - players[id].lastUpdate > HEARTBEAT_TIMEOUT
                  => /\ id \notin DOMAIN players'
                     /\ id \notin DOMAIN playerUpdateRate'
                     /\ Cardinality({i \in DOMAIN sent' :
                                       /\ sent'[i].ev = "playerDisconnected"
                                       /\ sent'[i].payload = id
                                       /\ sent'[i].to = open}) = 1
    ]_vars

\* C10 witness: a sweep has just removed a player whose connection is still open
C10_Witness ==
  /\ last.op = "sweep" /\ last.res = "removed"
  /\ \E i \in DOMAIN sent :
       /\ sent[i].ev = "playerDisconnected"
       /\ sent[i].payload \in open
       /\ Count(nDisconnected, sent[i].payload) = 1

\* C11: in every state the rate table has an entry for an id exactly when the
\* players table has one: DOMAIN playerUpdateRate = DOMAIN players.
C11_RateIffPlayer == DOMAIN playerUpdateRate = DOMAIN players

\* C12: once the Player of a connection has been removed, by the disconnect
\* handler or by the sweep, no later event of that connection registers a Player
\* again: no id has a second Player lifetime.
C12_RemovedIsTerminal == \A id \in DOMAIN nJoined : nJoined[id] <= 1

\* str[i..j] is str with the white space at its two ends removed: it starts and
\* ends with a character that is no white space, and all outside it is white space
TrimmedAt(str, i, j) ==
  /\ i <= j
  /\ str[i] \notin WhiteSpace
  /\ str[j] \notin WhiteSpace
  /\ \A k \in 1..Len(str) : (k < i \/ k > j) => str[k] \in WhiteSpace

\* the first n characters of str
IsPrefixOfLength(pre, str, n) ==
  /\ Len(pre) = n
  /\ \A k \in 1..n : pre[k] = str[k]

\* C13: whenever a join of a nickname succeeds, the nickname stored is the first
\* 12 characters of the submitted nickname with the white space at its ends
\* removed (all of it when that is shorter), and its length is between 1 and 12.
C13_NicknameTrimmedTo12 ==
  [][ \A s \in Sockets, data \in NickJoins :
        (Join(s, data, Origin) /\ last'.res = "ok")
          => LET stored == players'[s].nickname
             IN /\ Len(stored) >= 1
                /\ Len(stored) <= NicknameMax
                /\ \E i, j \in 1..Len(data.nickname.s) :
                     /\ TrimmedAt(data.nickname.s, i, j)
                     /\ IsPrefixOfLength(stored,
                          [k \in 1..(j - i + 1) |-> data.nickname.s[i + k - 1]],
                          IF j - i + 1 < NicknameMax THEN j - i + 1 ELSE NicknameMax)
    ]_vars

\* C13 witness: a nickname of 16 characters between white space has been stored
\* as its first 12
C13_Witness ==
  /\ JoinedOk
  /\ players[last.s].nickname = <<"A", "l", "i", "c", "e", "1", "2", "3", "4", "5", "6", "7">>

Radius == MAX_POSITION_DISTANCE * PerUnit
Abs(a) == IF a < 0 THEN 0 - a ELSE a

\* v is the point of the circle of MAX_POSITION_DISTANCE on the bearing of (x, z),
\* to the step of the fixed point: its distance from the origin is within two
\* steps of the radius, it lies on the side of (x, z), and it is off the ray
\* through (x, z) by no more than a step in each coordinate
OnCircleAtBearing(v, x, z) ==
  /\ v.x * v.x + v.z * v.z >= (Radius - 2) * (Radius - 2)
  /\ v.x * v.x + v.z * v.z <= (Radius + 2) * (Radius + 2)
  /\ v.x * x + v.z * z > 0
  /\ Abs(v.x * z - v.z * x) <= Abs(x) + Abs(z)

\* v is that point exactly, when d = sqrt(x^2 + z^2) and the point are on the grid
ExactlyOnCircle(v, x, z) ==
  \A d \in 1..(2 * Radius + 2 * PerUnit) :
    (d * d = x * x + z * z /\ (Abs(x) * Radius) % d = 0 /\ (Abs(z) * Radius) % d = 0)
      => /\ v.x * d = x * Radius
         /\ v.z * d = z * Radius
         /\ v.x * v.x + v.z * v.z = Radius * Radius

MovePassed == last.op = "playerMove" /\ last.res \in {"stored", "noPlayer"}

\* C15: a move of a connection passes the rate limiter only MIN_UPDATE_INTERVAL
\* or more after the last move of that connection that passed and after the last
\* successful join of that connection: any two moves that pass are 50 ms apart
\* or more, and so are a join and the first move to pass after it.
C15_MinIntervalBetweenAdmitted ==
  [][ \A s \in Sockets, data \in MoveInputs \cup {Hop} :
        (PlayerMove(s, data) /\ last'.res \in {"stored", "noPlayer"})
          => \/ s \notin DOMAIN admittedAt
             \/ now' - admittedAt[s] >= MIN_UPDATE_INTERVAL
    ]_vars

\* C15 witness: after a join at 0, moves have passed at 50 ms and at 100 ms
C15_Witness ==
  /\ MovePassed
  /\ now = 2 * MIN_UPDATE_INTERVAL
  /\ playerUpdateRate[last.s].updateCount = 2

\* C16: a playerMove of a connection that has no Player (it never joined, its
\* join was rejected, or its Player was evicted) leaves the players table as it
\* was, so it creates no Player and changes none, and emits nothing to any
\* connection: no newPlayer, no playerMoved, no other event.
C16_MoveWithoutPlayerIsSilent ==
  [][ \A s \in Sockets, data \in MoveInputs :
        (PlayerMove(s, data) /\ s \notin DOMAIN players)
          => /\ players' = players
             /\ sent' = << >>
             /\ ~crashed'
    ]_vars

\* C16 witness: the connection of an evicted Player, still open, has sent a move
\* that passed the rate limiter, while another player is registered
C16_Witness ==
  /\ last.op = "playerMove" /\ last.res = "noPlayer"
  /\ last.s \in open
  /\ Count(nDisconnected, last.s) = 1
  /\ DOMAIN players # {}

\* C17: a playerMove that the rate limiter denies, for the minimum interval or
\* for the cap per second, changes no Player (position, rotation, lastUpdate) and
\* no rate entry (lastUpdate, updateCount), emits nothing to any connection, the
\* sender included, and leaves the connection open and the process running.
C17_DeniedMoveChangesNothing ==
  [][ \A s \in Sockets, data \in MoveInputs \cup {Hop} :
        (PlayerMove(s, data) /\ last'.res \in {"tooSoon", "rateLimited"})
          => /\ players' = players
             /\ playerUpdateRate' = playerUpdateRate
             /\ sent' = << >>
             /\ open' = open
             /\ s \in open'
             /\ ~crashed'
    ]_vars

\* C17 witness: a joined player at the cap of MAX_UPDATE_RATE has had a move
\* denied that came MIN_UPDATE_INTERVAL after the last one admitted
C17_Witness ==
  /\ last.op = "playerMove" /\ last.res = "rateLimited"
  /\ last.s \in DOMAIN players
  /\ playerUpdateRate[last.s].updateCount = MAX_UPDATE_RATE
  /\ now - admittedAt[last.s] = MIN_UPDATE_INTERVAL

\* C18: a join of a connection that has a registered Player emits nothing to any
\* other connection: no newPlayer, no other event.
C18_DuplicateJoinNotPropagated ==
  [][ \A s \in FanoutSockets, data \in JoinInputs :
        (Join(s, data, Origin) /\ s \in DOMAIN players)
          => \A i \in DOMAIN sent' : sent'[i].to \subseteq {s}
    ]_vars

\* C19: on every sequence of move arrival times of a registered connection, the
\* server's rate limiter lets pass exactly the moves that the admit(id, now)
\* policy allows, the policy that keeps windowStart apart from lastAcceptedAt
\* and resets updateCount when now - windowStart > 1000 ms.
C19_LimiterAdmitsAsPolicy ==
  [][ \A s \in Sockets, data \in MoveInputs \cup {Hop} :
        (PlayerMove(s, data) /\ ~MoveDataInvalid(data) /\ s \in DOMAIN policy)
          => (last'.res \in {"stored", "noPlayer"}) = PolicyAdmit(policy[s], now).allow
    ]_vars

\* the stored state of a player has changed by more than the thresholds: some
\* coordinate of the position by more than POSITION_THRESHOLD, or the yaw by
\* more than 0.01
ChangedSignificantly(old, new) ==
  \/ Abs(new.position.x - old.position.x) > POSITION_THRESHOLD
  \/ Abs(new.position.y - old.position.y) > POSITION_THRESHOLD
  \/ Abs(new.position.z - old.position.z) > POSITION_THRESHOLD
  \/ Abs(new.rotation.y - old.rotation.y) > YawThreshold

\* the emissions of a step that are a playerMoved delta of the stored state of s
MovedDeltas(s, emitted, tbl) ==
  {i \in DOMAIN emitted :
     /\ emitted[i].ev = "playerMoved"
     /\ emitted[i].payload.id = s
     /\ emitted[i].payload.position = tbl[s].position
     /\ emitted[i].payload.rotation = tbl[s].rotation}

\* C20 as claimed: every accepted move with a significant change emits a
\* playerMoved delta with the mover's id, stored position and stored rotation to
\* all open connections, the originator among them.
C20_MovedToAllWithOriginator ==
  [][ \A s \in Sockets, data \in MoveInputs :
        (PlayerMove(s, data) /\ last'.res = "stored"
           /\ ChangedSignificantly(players[s], players'[s]))
          => \E i \in MovedDeltas(s, sent', players') : sent'[i].to = open
    ]_vars

\* C20 as amended: every accepted move with a significant change emits one
\* playerMoved delta with the mover's id, stored position and stored rotation,
\* to all open connections but the originator, and nothing else.
C20_MovedToAllButOriginator ==
  [][ \A s \in Sockets, data \in MoveInputs :
        (PlayerMove(s, data) /\ last'.res = "stored"
           /\ ChangedSignificantly(players[s], players'[s]))
          => /\ Len(sent') = 1
             /\ MovedDeltas(s, sent', players') = {1}
             /\ sent'[1].to = open \ {s}
    ]_vars

\* C20 witness: a move with a significant change has been stored and its delta
\* sent to an open connection that has not joined
C20_Witness ==
  /\ last.op = "playerMove" /\ last.res = "stored"
  /\ MovedDeltas(last.s, sent, players) # {}
  /\ \E c \in open \ DOMAIN players : \A i \in DOMAIN sent : c \in sent[i].to

\* the squared distance between two positions without NaN
SquaredDistance(p, q) ==
  (p.x - q.x) * (p.x - q.x) + (p.y - q.y) * (p.y - q.y) + (p.z - q.z) * (p.z - q.z)

\* a move over d (d2 its square, in steps) in dt ms is a suspected speed hack:
\* 5 < d < 20 and d / dt over MAX_VELOCITY, that is 1000 * d > MAX_VELOCITY * PerUnit * dt
\* (both sides divided by their common divisor)
SpeedHack(d2, dt) ==
  LET g == GCD(1000, MAX_VELOCITY * PerUnit)
  IN /\ d2 > (SmallHop * PerUnit) * (SmallHop * PerUnit)
     /\ d2 < (TeleportDistance * PerUnit) * (TeleportDistance * PerUnit)
     /\ ((1000 \div g) * (1000 \div g)) * d2
          > (((MAX_VELOCITY * PerUnit) \div g) * dt) * (((MAX_VELOCITY * PerUnit) \div g) * dt)

\* C21: when the move of a joined player implies a speed over MAX_VELOCITY, taken
\* over the time since that connection's last accepted update, and lies more
\* than 5 and less than 20 from the stored position, the stored position stays
\* as it was and the stored yaw becomes the reported ry; a move of 20 or more is
\* stored as validated.
C21_SpeedHackKeepsPosition ==
  [][ \A data \in WalkInputs :
        (PlayerMove(1, data) /\ last'.res = "stored")
          => LET old == players[1].position
                 new == players'[1].position
                 d2 == SquaredDistance(Validated(data), old)
                 dt == now - admittedAt[1]
             IN /\ players'[1].rotation.y = data.ry.n
                /\ d2 < (TeleportDistance * PerUnit) * (TeleportDistance * PerUnit)
                     => (SpeedHack(d2, dt) => new = old)
                /\ d2 >= (TeleportDistance * PerUnit) * (TeleportDistance * PerUnit)
                     => new = Validated(data)
    ]_vars

\* C22: an accepted move of a joined player emits playerMoved exactly when the
\* validated position is more than POSITION_THRESHOLD from the stored one on
\* some axis or the yaw more than 0.01 from the stored yaw; either way the stored
\* position, rotation and lastUpdate become the validated position, the reported
\* yaw and the time of the move.
C22_MovedIffSignificant ==
  [][ \A data \in WalkInputs :
        (PlayerMove(1, data) /\ last'.res = "stored")
          => LET old == players[1]
                 v == Validated(data)
                 significant ==
                   \/ Abs(v.x - old.position.x) > POSITION_THRESHOLD
                   \/ Abs(v.y - old.position.y) > POSITION_THRESHOLD
                   \/ Abs(v.z - old.position.z) > POSITION_THRESHOLD
                   \/ Abs(data.ry.n - old.rotation.y) > YawThreshold
             IN /\ (Emitted("playerMoved")' # {}) = significant
                /\ players'[1].position = v
                /\ players'[1].rotation = [x |-> 0, y |-> data.ry.n, z |-> 0]
                /\ players'[1].lastUpdate = now
    ]_vars

\* C22 witness: the first move after a join at the origin turned the yaw by 0.01
\* and moved nothing: it is stored and no playerMoved is emitted
C22_Witness ==
  /\ last.op = "playerMove" /\ last.res = "stored"
  /\ sent = << >>
  /\ playerUpdateRate[1].updateCount = 1
  /\ players[1].rotation.y = YawThreshold
  /\ players[1].position = [x |-> 0, y |-> StandHeight, z |-> 0]

\* C23: the sweep removes a player only when more than HEARTBEAT_TIMEOUT has
\* passed since its lastUpdate, and so since its last successful join or
\* accepted move; it leaves the Player and the rate entry of every other player
\* as they were; a successful join and an accepted move set lastUpdate to the
\* current time.
C23_OnlyStaleEvicted ==
  [][ /\ (last'.op = "sweep" /\ nextSweep' # nextSweep)
        => \A id \in DOMAIN players :
             IF id \in DOMAIN players'
             THEN /\ players'[id] = players[id]
                  /\ playerUpdateRate'[id] = playerUpdateRate[id]
                  /\ \A i \in DOMAIN sent' : sent'[i].payload # id
             ELSE /\ now - players[id].lastUpdate > HEARTBEAT_TIMEOUT
                  /\ now - admittedAt[id] > HEARTBEAT_TIMEOUT
      /\ (last'.op \in {"join", "playerMove"} /\ last'.res \in {"ok", "stored"})
           => players'[last'.s].lastUpdate = now'
    ]_vars

\* C23 witness: a sweep has removed a stale player and left another, whose
\* last accepted update is exactly HEARTBEAT_TIMEOUT old
C23_Witness ==
  /\ last.op = "sweep" /\ last.res = "removed"
  /\ \E id \in DOMAIN players : now - players[id].lastUpdate = HEARTBEAT_TIMEOUT

\* what the type check and the height normalisation are to hand on; a number is
\* a value of type number, NaN among them
CheckedNumber(v) == IF v.t = "number" THEN v.n ELSE 0
CheckedHeight(v) == IF v.t = "number" /\ v.n # 0 THEN v.n ELSE StandHeight

\* C24: the type check and the height normalisation reject no move: the
\* validated x, z and ry are the reported value when it is a number and 0 when
\* it is not, the validated y is 1.0 when the reported y is no number or is 0 and
\* the reported y otherwise; the move, an object that passed the rate limiter,
\* is processed and refreshes the lastUpdate of the player.  (x and z are seen in
\* the stored position unless the bounds clamp moved them.)
C24_TypeCheckDefaults ==
  [][ \A data \in HostileMoves :
        (PlayerMove(1, data) /\ 1 \in DOMAIN players
           /\ last'.res \notin {"invalid", "tooSoon", "rateLimited"})
          => LET x == CheckedNumber(data.x)
                 z == CheckedNumber(data.z)
             IN /\ last'.res = "stored"
                /\ players'[1].lastUpdate = now
                /\ players'[1].rotation.y = CheckedNumber(data.ry)
                /\ players'[1].position.y = CheckedHeight(data.y)
                /\ (x = NaN \/ z = NaN \/ x * x + z * z <= Radius * Radius)
                     => players'[1].position.x = x /\ players'[1].position.z = z
    ]_vars

\* C24 witness: a move whose x is a string, y null, z undefined and ry an object
\* has been stored as (0, 1.0, 0) with yaw 0, and lastUpdate is its time
C24_Witness ==
  /\ last.op = "playerMove" /\ last.res = "stored"
  /\ players[1].position = [x |-> 0, y |-> StandHeight, z |-> 0]
  /\ players[1].rotation.y = 0
  /\ players[1].lastUpdate = now

\* the entry of an id in a table, or none
EntryOf(tbl, id) == IF id \in DOMAIN tbl THEN << tbl[id] >> ELSE << >>

\* a step that is the handling of an event of connection s
EventOf(s) ==
  \/ \E data \in JoinInputs : Join(s, data, Origin)
  \/ \E data \in MoveInputs : PlayerMove(s, data)
  \/ Disconnect(s)

\* an event of connection s leaves the entries of every other connection as
\* they were
OthersKept(s) ==
  \A other \in Sockets \ {s} :
    /\ EntryOf(players', other) = EntryOf(players, other)
    /\ EntryOf(playerUpdateRate', other) = EntryOf(playerUpdateRate, other)

\* a player leaves the table only in the sweep or in the disconnect of its own
\* connection
RemovedBySweepOrOwnDisconnect ==
  \A id \in DOMAIN players \ DOMAIN players' :
    \/ last'.op = "sweep"
    \/ last'.op = "disconnect" /\ last'.s = id

\* C25: an event of connection A (join, playerMove or disconnect, whatever its
\* payload) leaves the Player entry and the rate entry of every other connection
\* unchanged in a process that goes on running, and a player is removed only by the
\* heartbeat sweep or by the disconnect of its own connection
C25_OthersUntouched ==
  [][ /\ \A s \in Sockets :
           EventOf(s) => /\ OthersKept(s)
                         /\ DOMAIN players \ {s} # {} => ~crashed'
      /\ RemovedBySweepOrOwnDisconnect ]_vars

\* the position last sent about id is within POSITION_THRESHOLD of the stored
\* one on each axis
WithinThreshold(stored, told) ==
  /\ Abs(stored.x - told.x) <= POSITION_THRESHOLD
  /\ Abs(stored.y - told.y) <= POSITION_THRESHOLD
  /\ Abs(stored.z - told.z) <= POSITION_THRESHOLD

\* C26: after every accepted move of a player, the position last sent to other
\* connections about it, in newPlayer or playerMoved, is within
\* POSITION_THRESHOLD of its stored position on each axis
C26_SentTracksStored ==
  [][ \A s \in Sockets, data \in DriftInputs :
        (PlayerMove(s, data) /\ last'.res = "stored" /\ s \in DOMAIN announced')
          => WithinThreshold(players'[s].position, announced'[s])
    ]_vars

\* what the registry holds of the players other than c, as a client lists them
RegistryFor(c) ==
  [id \in DOMAIN players \ {c} |->
     [nickname |-> players[id].nickname, characterType |-> players[id].characterType]]

C28_ConnectedClientKept ==
  \A s \in DOMAIN app : Count(nJoined, s) > 0 => s \in DOMAIN players

\* C29: the rate limiter locks no connection out for good: a move that arrives
\* more than 1000 ms after the last admitted move of its connection, or after
\* its join, is admitted whatever updateCount had been reached, and the counter
\* starts again at 1
C29_AdmittedAfterQuietSecond ==
  [][ (PlayerMove(1, Hop) /\ 1 \in DOMAIN admittedAt
         /\ now - admittedAt[1] > RateWindow)
        => /\ last'.res \in {"stored", "noPlayer"}
           /\ admittedAt'[1] = now
           /\ playerUpdateRate'[1] = [lastUpdate |-> now, updateCount |-> 1]
    ]_vars

\* C29 witness: a move has been admitted and stored although the limiter found
\* the counter at MAX_UPDATE_RATE
C29_Witness ==
  /\ last.op = "playerMove"
  /\ last.res = "stored"
  /\ last.found = MAX_UPDATE_RATE

\* C30: every id of the players table is the id of a socket that is connected:
\* once the disconnect event of a connection has been handled no Player has its
\* id, and the player count of /health is at most the number of open connections
C30_PlayersAreConnected ==
  /\ DOMAIN players \subseteq open
  /\ DOMAIN players \cap closed = {}
  /\ Health(players).players <= Cardinality(open)

\* C30 witness: the disconnect handler has just removed the Player of a
\* connection while the Player of another, still connected, remains
C30_Witness ==
  /\ last.op = "disconnect" /\ last.res = "removed"
  /\ last.s \in closed
  /\ last.s \notin DOMAIN players
  /\ DOMAIN players # {}
  /\ Health(players).players = 1

====
